---- MODULE Spec2Model ----
(***************************************************************************)
(* A model of src/counting_sketches/count_min_sketch.py: the class         *)
(* CountMinSketch (a table of counters addressed by one hashed column per  *)
(* row) and GeneralCountMinSketch (two CountMinSketch objects, one for     *)
(* non-negative and one for negative counts).                              *)
(*                                                                         *)
(* The constructors of CountMinSketch are classmethods: they write         *)
(* num_rows, num_columns, num_items and counters on the CLASS, so these    *)
(* are modelled as one set of class attributes.  An object gets an         *)
(* attribute of its own only through `self.num_items += 1`.                *)
(***************************************************************************)
EXTENDS Integers, FiniteSets, Sequences, TLC

\* ------------------------------------------------------------------ bounds
\* an accepted update needs num_items < MaxOps (caps the counters)
MaxOps == 2
\* counts passed to update / csv_update range over -1 .. MaxCount
MaxCount == 1
\* number of CountMinSketch objects that are ever constructed
MaxInst == 2
\* the longest list passed to PriorityQueueSet.__init__
MaxItems == 3
\* the longest arr passed to FenwickTree.__init__
MaxArr == 3

\* ------------------------------------------------------- program constants
\* `if param1 < 2 or param2 < 2: raise ValueError`
MinDim == 2

\* ------------------------------------------------------------- input sets
\* the items a caller passes to update, csv_update and query
Items == {"a", "b"}
\* the Python builtin function `id`, which csv_update passes to query
IdBuiltin == "id"
Hashable == Items \cup {IdBuiltin}
\* the (rows, columns) a sketch is constructed with
Dims == {<<2, 2>>, <<2, 3>>, <<3, 2>>}
\* the arguments tried by the constructor, valid or not
Params == {<<1, 2>>, <<2, 1>>} \cup Dims
MaxRows == CHOOSE n \in {d[1] : d \in Dims} : \A d \in Dims : d[1] <= n
MaxCols == CHOOSE n \in {d[2] : d \in Dims} : \A d \in Dims : d[2] <= n
\* the values of h.intdigest(), cut down to what reaches every column
Digests == 0..(MaxCols - 1)
Counts == (-1)..MaxCount
Objects == 1..MaxInst

VARIABLES
    digest,          \* digest[item][i]: h.intdigest() after h.update(str(i))
    num_rows,        \* CountMinSketch.num_rows       (class attribute)
    num_columns,     \* CountMinSketch.num_columns    (class attribute)
    num_items,       \* CountMinSketch.num_items      (class attribute)
    counters,        \* CountMinSketch.counters       (class attribute)
    alive,           \* the CountMinSketch objects constructed so far
    own_num_items,   \* obj.num_items of the objects that have the attribute
    own_dims,        \* history: the (rows, columns) each object was built with
    general,         \* the GeneralCountMinSketch: built, sketch_positive, sketch_negative
    last,            \* the last call made and how it ended
    inserted,        \* history: per item, the sum of the counts accepted for it
    csv_used,        \* history: some accepted csv_update has run
    std_counters,    \* the counters of a second run fed by update only
    std_num_items,   \* the num_items of that second run
    net,             \* history: per item, the signed sum passed to GeneralCountMinSketch.update
    calls,           \* history: per object, the update / csv_update calls with count > 0
    routed,          \* history: the GeneralCountMinSketch.update calls with count >= 0
    answered,        \* history: per object and item, what query returned since the
                     \* last update or csv_update call on that object (-1: nothing)
    pq_built,        \* PriorityQueueSet.__init__ has returned an object
    pq_set,          \* PriorityQueueSet.set: its keys
    pq_heap,         \* PriorityQueueSet.heap
    pq_last,         \* the last PriorityQueueSet call made and how it ended
    fw_maxval,       \* FenwickTree.maxval
    fw_tree,         \* FenwickTree.tree, tree[0] at position 1
    fw_values,       \* history: per index, arr[index - 1] plus the values added there
    fw_last,         \* the last FenwickTree call made and how it ended
    n_nodes,         \* the n passed to floyd and dijkstra
    weight_mtx,      \* the weight_mtx passed to floyd and dijkstra
    floyd_out,       \* floyd: its matrices, the k its main loop is at, what it returned
    dijkstra_out     \* what dijkstra returned

class_vars == <<num_rows, num_columns, num_items, counters>>
object_vars == <<alive, own_num_items, own_dims, general>>
history_vars == <<inserted, csv_used, std_counters, std_num_items, net, calls,
                  routed, answered>>
sketch_vars == <<digest, class_vars, object_vars, last, history_vars>>
pq_vars == <<pq_built, pq_set, pq_heap, pq_last>>
fw_vars == <<fw_maxval, fw_tree, fw_values, fw_last>>
sp_vars == <<n_nodes, weight_mtx, floyd_out, dijkstra_out>>
\* what no CountMinSketch call touches
other_vars == <<pq_vars, fw_vars, sp_vars>>
vars == <<sketch_vars, other_vars>>

Min(S) == CHOOSE x \in S : \A y \in S : x <= y
Max2(x, y) == IF x >= y THEN x ELSE y

\* --------------------------------------------------------- CountMinSketch
\* array("l", (0 for _ in range(cols))) appended rows times
zero_table(rows, cols) == [r \in 0..(rows - 1) |-> [c \in 0..(cols - 1) |-> 0]]

\* attribute lookup on an object: found on the object, else on the class
counters_of(self) == counters
num_rows_of(self) == num_rows
num_columns_of(self) == num_columns
num_items_of(self) ==
    IF self \in DOMAIN own_num_items THEN own_num_items[self] ELSE num_items

\* __len__: `return self.num_items`
len_of(self) == num_items_of(self)

\* _hash: the i-th value yielded is h.intdigest() % self.num_columns
hash(item, i) == digest[item][i] % num_columns

\* query: min(counter[i] for counter, i in zip(self.counters, self._hash(item)))
query(c, item) == Min({c[r][hash(item, r)] : r \in 0..(num_rows - 1)})


\* update with the loop stopping one row short
update_cells_short(c, item, count) ==
    [r \in 0..(num_rows - 1) |->
        IF r = num_rows - 1 THEN c[r]
        ELSE [c[r] EXCEPT ![hash(item, r)] = @ + count]]

\* update with `counter[i] += count` done on every cell of the row
update_cells_whole_row(c, item, count) ==
    [r \in 0..(num_rows - 1) |-> [i \in DOMAIN c[r] |-> c[r][i] + count]]

\* update: the loop `for counter, i in zip(...): counter[i] += count`
update_cells(c, item, count) ==
    [r \in 0..(num_rows - 1) |-> [c[r] EXCEPT ![hash(item, r)] = @ + count]]

\* csv_update: the loop from row r on.  Each pass calls self.query(id), with
\* `id` the Python builtin (the parameter is named item), on the table as the
\* passes before it left it.
RECURSIVE csv_cells(_, _, _, _)
csv_cells(c, item, count, r) ==
    IF r >= num_rows THEN c
    ELSE LET min_val == query(c, IdBuiltin)
             i == hash(item, r)
         IN csv_cells([c EXCEPT ![r][i] = Max2(c[r][i], min_val + count)],
                      item, count, r + 1)

\* `self.num_items += 1`: reads the attribute (object, else class) and
\* writes it on the object
bump_num_items(self) ==
    own_num_items' = [o \in (DOMAIN own_num_items) \cup {self} |->
                         IF o = self THEN num_items_of(self) + 1
                         ELSE own_num_items[o]]

\* the record of a call: what was called on which object with which
\* arguments, whether it raised, and the value it returned
Call(op, self, item, count, raised, value) ==
    [op |-> op, self |-> self, item |-> item, count |-> count,
     dims |-> <<0, 0>>, raised |-> raised, value |-> value]

ConstructCall(op, self, rows, cols, raised) ==
    [op |-> op, self |-> self, item |-> "-", count |-> 0,
     dims |-> <<rows, cols>>, raised |-> raised, value |-> 0]

\* update without the test `count < 0`
update_effect_unchecked(self, item, count) ==
    IF count = 0 THEN UNCHANGED <<class_vars, own_num_items>>
    ELSE /\ num_items_of(self) < MaxOps
         /\ own_num_items' = [o \in (DOMAIN own_num_items) \cup {self} |->
                                  IF o = self THEN num_items_of(self) + 1
                                  ELSE own_num_items[o]]
         /\ counters' = [r \in 0..(num_rows - 1) |->
                            [counters[r] EXCEPT ![hash(item, r)] = @ + count]]
         /\ UNCHANGED <<num_rows, num_columns, num_items>>

\* update with `self.num_items += 1` ahead of the test `count == 0`
update_effect_counts_zero(self, item, count) ==
    IF count < 0 THEN UNCHANGED <<class_vars, own_num_items>>
    ELSE /\ num_items_of(self) < MaxOps
         /\ own_num_items' = [o \in (DOMAIN own_num_items) \cup {self} |->
                                  IF o = self THEN num_items_of(self) + 1
                                  ELSE own_num_items[o]]
         /\ counters' = [r \in 0..(num_rows - 1) |->
                            [counters[r] EXCEPT ![hash(item, r)] = @ + count]]
         /\ UNCHANGED <<num_rows, num_columns, num_items>>

\* what update does to the sketch
update_effect(self, item, count) ==
    IF count < 0 THEN UNCHANGED <<class_vars, own_num_items>>
    ELSE IF count = 0 THEN UNCHANGED <<class_vars, own_num_items>>
    ELSE /\ num_items_of(self) < MaxOps
         /\ bump_num_items(self)
         /\ counters' = update_cells(counters_of(self), item, count)
         /\ UNCHANGED <<num_rows, num_columns, num_items>>

\* what csv_update does to the sketch
csv_update_effect(self, item, count) ==
    IF count < 0 THEN UNCHANGED <<class_vars, own_num_items>>
    ELSE IF count = 0 THEN UNCHANGED <<class_vars, own_num_items>>
    ELSE /\ num_items_of(self) < MaxOps
         /\ bump_num_items(self)
         /\ counters' = csv_cells(counters_of(self), item, count, 0)
         /\ UNCHANGED <<num_rows, num_columns, num_items>>

\* `if count < 0: raise ValueError('Item has non-negative count')`
raises_negative(count) == count < 0

update(self, item, count) ==
    /\ self \in alive
    /\ update_effect(self, item, count)
    /\ last' = Call("update", self, item, count, raises_negative(count), 0)
    /\ UNCHANGED <<digest, alive, own_dims, general, other_vars>>

csv_update(self, item, count) ==
    /\ self \in alive
    /\ csv_update_effect(self, item, count)
    /\ last' = Call("csv_update", self, item, count, raises_negative(count), 0)
    /\ UNCHANGED <<digest, alive, own_dims, general, other_vars>>

query_call(self, item) ==
    /\ self \in alive
    /\ last' = Call("query", self, item, 0, FALSE, query(counters_of(self), item))
    /\ UNCHANGED <<digest, class_vars, object_vars, other_vars>>

\* ------------------------------------------- the structures not in use
PQCall(op, item, raised, found, value) ==
    [op |-> op, item |-> item, raised |-> raised, found |-> found, value |-> value]

\* no PriorityQueueSet has been constructed
IdlePQ ==
    /\ pq_built = FALSE
    /\ pq_set = {}
    /\ pq_heap = <<>>
    /\ pq_last = PQCall("none", 0, FALSE, FALSE, 0)

FWCall(op, index, value, raised, result) ==
    [op |-> op, index |-> index, value |-> value, raised |-> raised, result |-> result]

\* no FenwickTree has been constructed
IdleFenwick ==
    /\ fw_maxval = 0
    /\ fw_tree = <<>>
    /\ fw_values = <<>>
    /\ fw_last = FWCall("none", 0, 0, FALSE, 0)

\* neither floyd nor dijkstra has been called
IdlePaths ==
    /\ n_nodes = 0
    /\ weight_mtx = <<>>
    /\ floyd_out = [done |-> FALSE, k |-> -1, dist |-> <<>>, pred |-> <<>>]
    /\ dijkstra_out = [done |-> FALSE, raised |-> FALSE, dist |-> <<>>, pred |-> <<>>]

IdleOthers == IdlePQ /\ IdleFenwick /\ IdlePaths

\* ------------------------------------------------ one sketch, any caller
DigestFunctions == [Hashable -> [0..(MaxRows - 1) -> Digests]]

\* nothing has been passed to any sketch yet
InitHistory ==
    /\ std_counters = counters
    /\ inserted = [x \in Items |-> 0]
    /\ csv_used = FALSE
    /\ std_num_items = 0
    /\ net = [x \in Items |-> 0]
    /\ calls = [o \in Objects |-> 0]
    /\ routed = 0
    /\ answered = [o \in Objects |-> [x \in Items |-> -1]]

\* the state after CountMinSketch(rows, cols) has built object 1
InitSketch ==
    /\ \E d \in Dims :
         /\ num_rows = d[1]
         /\ num_columns = d[2]
         /\ counters = zero_table(d[1], d[2])
         /\ own_dims = [o \in {1} |-> d]
    /\ num_items = 0
    /\ alive = {1}
    /\ own_num_items = [o \in {} |-> 0]
    /\ general = [built |-> FALSE, sketch_positive |-> 0, sketch_negative |-> 0]
    /\ last = ConstructCall("construct", 1, num_rows, num_columns, FALSE)
    /\ InitHistory

\* the digests that tell no two behaviours of one sketch apart are left out:
\* num_columns never changes, and digests that differ by a multiple of it
\* address the same column; num_rows never changes, and the digests past it
\* are never asked for
residues_only(S) ==
    \A x \in S, i \in 0..(MaxRows - 1) :
        digest[x][i] < (IF i < num_rows THEN num_columns ELSE 1)

Init ==
    /\ InitSketch
    /\ digest \in DigestFunctions
    /\ residues_only(Hashable)
    /\ IdleOthers

\* one more update / csv_update call on the object, counted when count > 0
count_call(self, count) ==
    calls' = [calls EXCEPT ![self] = @ + (IF count > 0 THEN 1 ELSE 0)]

\* an update / csv_update call on the object: what query answered before is
\* forgotten
forget_answers(self) ==
    answered' = [answered EXCEPT ![self] = [x \in Items |-> -1]]

\* the counts a call got accepted for an item
Track(item, count, csv) ==
    /\ inserted' = [inserted EXCEPT ![item] = @ + (IF count > 0 THEN count ELSE 0)]
    /\ csv_used' = (csv_used \/ (csv /\ count > 0))
    /\ count_call(1, count)
    /\ forget_answers(1)
    /\ UNCHANGED <<std_counters, std_num_items, net, routed>>

Update == \E item \in Items, count \in Counts :
    update(1, item, count) /\ Track(item, count, FALSE)

CsvUpdate == \E item \in Items, count \in Counts :
    csv_update(1, item, count) /\ Track(item, count, TRUE)

\* what query answered is remembered
remember_answer(self, item) ==
    /\ answered' = [answered EXCEPT ![self][item] = last'.value]
    /\ UNCHANGED <<inserted, csv_used, std_counters, std_num_items, net, calls, routed>>

Query == \E item \in Items :
    query_call(1, item) /\ UNCHANGED history_vars

Next == Update \/ CsvUpdate \/ Query

Spec == Init /\ [][Next]_vars


\* ------------------------------------------------------- construction
\* the test of __init__ with `and` for `or`
valid_dims_either(rows, cols) == ~(rows < MinDim /\ cols < MinDim)

\* __init__ with row_col=True: `if param1 < 2 or param2 < 2: raise ValueError`
valid_dims(rows, cols) == ~(rows < MinDim \/ cols < MinDim)

\* _row_col_construction, a classmethod: everything is written on the class
row_col_construction(rows, cols) ==
    /\ num_rows' = rows
    /\ num_columns' = cols
    /\ num_items' = 0
    /\ counters' = zero_table(rows, cols)

\* the objects are numbered in the order they are constructed
new_object == Cardinality(alive) + 1

\* CountMinSketch(rows, cols)
construct(rows, cols) ==
    /\ new_object <= MaxInst
    /\ IF valid_dims(rows, cols)
       THEN /\ row_col_construction(rows, cols)
            /\ alive' = alive \cup {new_object}
            /\ own_dims' = [o \in alive \cup {new_object} |->
                                IF o = new_object THEN <<rows, cols>> ELSE own_dims[o]]
            /\ last' = ConstructCall("construct", new_object, rows, cols, FALSE)
       ELSE /\ UNCHANGED <<class_vars, alive, own_dims>>
            /\ last' = ConstructCall("construct", 0, rows, cols, TRUE)
    /\ UNCHANGED <<digest, own_num_items, general, other_vars>>

\* ------------------------------------------- construction by error bounds
\* error and error_prob are carried in hundredths: Scale stands for the 1 of
\* `0 < param1 < 1`
Scale == 100
\* exp(1) in thousandths, and the thousand
EMilli == 2718
Milli == 1000
\* the error margins and error probabilities tried, valid or not
ErrorParams == {-1, 0, 1, 2, 4, 5, 10, 13, 14, 36, 37, 50, 99, 100, 101}

\* __init__ with row_col=False: `if not 0 < param < 1: raise ValueError`
valid_bound(param) == 0 < param /\ param < Scale

\* exp(n) in thousandths
RECURSIVE exp_milli(_)
exp_milli(n) == IF n = 0 THEN Milli ELSE (exp_milli(n - 1) * EMilli) \div Milli

\* the least n from `from` on with n >= -log(error_prob), that is with
\* error_prob * exp(n) >= 1
RECURSIVE ceil_neg_log(_, _)
ceil_neg_log(error_prob, from) ==
    IF error_prob * exp_milli(from) >= Scale * Milli THEN from
    ELSE ceil_neg_log(error_prob, from + 1)

\* int(floor(-log(error_prob)))
rows_floor(error_prob) == ceil_neg_log(error_prob, 0) - 1

\* `cls.num_rows = int(ceil(-log(error_prob)))`
rows_for(error_prob) == ceil_neg_log(error_prob, 0)

\* `cls.num_columns = int(ceil(exp(1)/error))`
columns_for(error) == (EMilli * Scale + error * Milli - 1) \div (error * Milli)

\* _error_bound_construction, a classmethod: everything is written on the class
error_bound_construction(error, error_prob) ==
    /\ num_rows' = rows_for(error_prob)
    /\ num_columns' = columns_for(error)
    /\ num_items' = 0
    /\ counters' = zero_table(rows_for(error_prob), columns_for(error))

\* CountMinSketch(error, error_prob, row_col=False)
construct_bound(error, error_prob) ==
    /\ new_object <= MaxInst
    /\ IF valid_bound(error) /\ valid_bound(error_prob)
       THEN /\ error_bound_construction(error, error_prob)
            /\ alive' = alive \cup {new_object}
            /\ own_dims' = [o \in alive \cup {new_object} |->
                                IF o = new_object
                                THEN <<rows_for(error_prob), columns_for(error)>>
                                ELSE own_dims[o]]
            /\ last' = ConstructCall("construct_bound", new_object, error, error_prob, FALSE)
       ELSE /\ UNCHANGED <<class_vars, alive, own_dims>>
            /\ last' = ConstructCall("construct_bound", 0, error, error_prob, TRUE)
    /\ UNCHANGED <<digest, own_num_items, general, other_vars>>

\* -------------------------------------------------- GeneralCountMinSketch
\* __init__: sketch_positive = CountMinSketch(rows, cols), then
\* sketch_negative = CountMinSketch(rows, cols): objects 1 and 2
g_construct(rows, cols) ==
    /\ num_rows = rows
    /\ num_columns = cols
    /\ num_items = 0
    /\ counters = zero_table(rows, cols)
    /\ alive = {1, 2}
    /\ own_num_items = [o \in {} |-> 0]
    /\ own_dims = [o \in {1, 2} |-> <<rows, cols>>]
    /\ general = [built |-> TRUE, sketch_positive |-> 1, sketch_negative |-> 2]
    /\ last = ConstructCall("g_construct", 2, rows, cols, FALSE)

\* update: `if count < 0: self.sketch_negative.update(item, count)`,
\* `else: self.sketch_positive.update(item, count)`
g_target(count) ==
    IF count < 0 THEN general.sketch_negative ELSE general.sketch_positive

g_update(item, count) ==
    /\ general.built
    /\ update_effect(g_target(count), item, count)
    /\ last' = Call("g_update", g_target(count), item, count, raises_negative(count), 0)
    /\ UNCHANGED <<digest, alive, own_dims, general, other_vars>>

\* query: self.sketch_positive.query(item) - self.sketch_negative.query(item)
g_query(item) ==
    query(counters_of(general.sketch_positive), item)
        - query(counters_of(general.sketch_negative), item)

\* __len__ with sketch_negative for sketch_positive
g_len_negative == num_items_of(general.sketch_negative)

\* __len__: `return self.sketch_positive.num_items`
g_len == num_items_of(general.sketch_positive)

g_query_call(item) ==
    /\ general.built
    /\ last' = Call("g_query", 0, item, 0, FALSE, g_query(item))
    /\ UNCHANGED <<digest, class_vars, object_vars, other_vars>>

\* ------------------------------------------- several sketches, any caller
\* the item the callers of this specification pass
ManyItems == {"a"}
\* The digests of the item the callers pass are drawn freely.  Those of `id`
\* are pinned to 0, which leaves every pattern of shared and separate cells
\* between the two under either number of columns; so are those of the item
\* that is never passed.
InitMany ==
    /\ InitSketch
    /\ digest \in DigestFunctions
    /\ \A x \in Hashable \ ManyItems : \A i \in 0..(MaxRows - 1) : digest[x][i] = 0
    /\ IdleOthers

\* the updates accepted so far by all objects together
accepted == LET RECURSIVE sum(_)
                sum(S) == IF S = {} THEN 0
                          ELSE LET o == CHOOSE o \in S : TRUE
                               IN own_num_items[o] + sum(S \ {o})
            IN sum(DOMAIN own_num_items)

Construct == \E p \in Params :
    construct(p[1], p[2]) /\ UNCHANGED history_vars

ManyUpdate == \E self \in alive, item \in ManyItems, count \in Counts :
    /\ accepted < MaxOps
    /\ update(self, item, count)
    /\ count_call(self, count)
    /\ forget_answers(self)
    /\ UNCHANGED <<inserted, csv_used, std_counters, std_num_items, net, routed>>

ManyCsvUpdate == \E self \in alive, item \in ManyItems, count \in Counts :
    /\ accepted < MaxOps
    /\ csv_update(self, item, count)
    /\ count_call(self, count)
    /\ forget_answers(self)
    /\ UNCHANGED <<inserted, csv_used, std_counters, std_num_items, net, routed>>

ManyQuery == \E self \in alive, item \in ManyItems :
    query_call(self, item) /\ UNCHANGED history_vars

NextMany == Construct \/ ManyUpdate \/ ManyCsvUpdate \/ ManyQuery

SpecMany == InitMany /\ [][NextMany]_vars

\* ------------------------- several sketches, the answers of query kept
AnsweredQuery == \E self \in alive, item \in ManyItems :
    query_call(self, item) /\ remember_answer(self, item)

NextAnswered == Construct \/ ManyUpdate \/ ManyCsvUpdate \/ AnsweredQuery

SpecAnswered == InitMany /\ [][NextAnswered]_vars

\* ----------------------------------- one GeneralCountMinSketch, any caller
\* the counts passed to GeneralCountMinSketch.update
SignedCounts == {-3, 0, 5}

\* GeneralCountMinSketch has no csv_update, so `id` is never hashed and its
\* digests are pinned; num_columns never changes, so only residues are drawn.
InitGeneral ==
    /\ \E d \in Dims : g_construct(d[1], d[2])
    /\ InitHistory
    /\ digest \in DigestFunctions
    /\ \A i \in 0..(MaxRows - 1) : digest[IdBuiltin][i] = 0
    /\ residues_only(Items)
    /\ IdleOthers

\* (the net sum is kept from running below the least count passed)
GUpdate == \E item \in Items, count \in SignedCounts :
    /\ accepted < MaxOps
    /\ net[item] + count >= Min(SignedCounts)
    /\ count >= 0 => routed < MaxOps
    /\ g_update(item, count)
    /\ net' = [net EXCEPT ![item] = @ + count]
    /\ count_call(g_target(count), count)
    /\ routed' = routed + (IF count >= 0 THEN 1 ELSE 0)
    /\ UNCHANGED <<inserted, csv_used, std_counters, std_num_items, answered>>

GQuery == \E item \in Items :
    g_query_call(item) /\ UNCHANGED history_vars

NextGeneral == GUpdate \/ GQuery

SpecGeneral == InitGeneral /\ [][NextGeneral]_vars

\* --------------------------------------- sketches sized by error bounds
\* no item is passed: every digest is pinned
InitBound ==
    /\ InitSketch
    /\ digest = [x \in Hashable |-> [i \in 0..(MaxRows - 1) |-> 0]]
    /\ IdleOthers

\* a sketch that no call is made on
IdleSketch ==
    /\ InitSketch
    /\ num_rows = MinDim /\ num_columns = MinDim
    /\ digest = [x \in Hashable |-> [i \in 0..(MaxRows - 1) |-> 0]]

BoundConstruct == \E error \in ErrorParams, error_prob \in ErrorParams :
    construct_bound(error, error_prob) /\ UNCHANGED history_vars

NextBound == BoundConstruct

SpecBound == InitBound /\ [][NextBound]_vars

\* ------------------------- two runs on the same stream: csv_update and update
\* the second run: update(item, count) on a table of its own
std_update(item, count) ==
    IF count <= 0 THEN UNCHANGED <<std_counters, std_num_items>>
    ELSE /\ std_num_items' = std_num_items + 1
         /\ std_counters' = update_cells(std_counters, item, count)

PairUpdate == \E item \in Items, count \in Counts :
    /\ csv_update(1, item, count)
    /\ std_update(item, count)
    /\ inserted' = [inserted EXCEPT ![item] = @ + (IF count > 0 THEN count ELSE 0)]
    /\ csv_used' = (csv_used \/ count > 0)
    /\ count_call(1, count)
    /\ UNCHANGED <<net, routed, answered>>

NextPair == PairUpdate

SpecPair == Init /\ [][NextPair]_vars

\* ------------------------------------------------------ PriorityQueueSet
\* the items a caller passes
PQItems == 1..4
\* the lists passed to __init__, unsorted and non-unique ones among them
ItemLists == UNION {[1..k -> PQItems] : k \in 0..MaxItems}
\* the orders in which dict.keys() may list the keys S
KeyOrders(S) ==
    {order \in [1..Cardinality(S) -> S] : \A i, j \in DOMAIN order :
                                              order[i] = order[j] => i = j}
elements(heap) == {heap[i] : i \in DOMAIN heap}

\* heapq._siftdown(heap, startpos, pos), positions counted from 1 (the parent of
\* pos is pos \div 2): newitem climbs while it is smaller than its parent
RECURSIVE siftdown_loop(_, _, _, _)
siftdown_loop(heap, startpos, pos, newitem) ==
    IF pos > startpos /\ newitem < heap[pos \div 2]
    THEN siftdown_loop([heap EXCEPT ![pos] = heap[pos \div 2]], startpos, pos \div 2, newitem)
    ELSE [heap EXCEPT ![pos] = newitem]

siftdown(heap, startpos, pos) == siftdown_loop(heap, startpos, pos, heap[pos])

\* the loop of heapq._siftup: the smaller child moves up until a leaf is hit
RECURSIVE siftup_loop(_, _)
siftup_loop(heap, pos) ==
    LET childpos == 2 * pos
        rightpos == childpos + 1
        smaller == IF rightpos <= Len(heap) /\ ~(heap[childpos] < heap[rightpos])
                   THEN rightpos ELSE childpos
    IN  IF childpos <= Len(heap)
        THEN siftup_loop([heap EXCEPT ![pos] = heap[smaller]], smaller)
        ELSE <<heap, pos>>

\* heapq._siftup(heap, pos)
siftup(heap, pos) ==
    LET newitem == heap[pos]
        leaf == siftup_loop(heap, pos)
    IN  siftdown_loop([leaf[1] EXCEPT ![leaf[2]] = newitem], pos, leaf[2], newitem)

\* heapq.heapify(x): `for i in reversed(range(n//2)): _siftup(x, i)`
RECURSIVE heapify_from(_, _)
heapify_from(x, i) == IF i < 1 THEN x ELSE heapify_from(siftup(x, i), i - 1)

heapify(x) == heapify_from(x, Len(x) \div 2)

\* heapq.heappush(heap, item)
heappush(heap, item) == siftdown(Append(heap, item), 1, Len(heap) + 1)

\* heappop giving the last item of the list rather than the root
heappop_last(heap) ==
    [item |-> heap[Len(heap)], heap |-> SubSeq(heap, 1, Len(heap) - 1)]

\* heapq.heappop(heap), heap not empty: the item returned and the heap left
heappop(heap) ==
    LET lastelt == heap[Len(heap)]
        rest == SubSeq(heap, 1, Len(heap) - 1)
    IN  IF rest # <<>>
        THEN [item |-> rest[1], heap |-> siftup([rest EXCEPT ![1] = lastelt], 1)]
        ELSE [item |-> lastelt, heap |-> rest]

\* __init__(items): dict.keys() is a list (Python 2), in an order of its own,
\* or a view that heapify refuses with TypeError (Python 3)
pq_init(items, keys_is_list) ==
    /\ pq_built = keys_is_list
    /\ pq_set = {items[i] : i \in DOMAIN items}
    /\ IF keys_is_list
       THEN \E order \in KeyOrders(pq_set) : pq_heap = heapify(order)
       ELSE pq_heap = <<>>
    /\ pq_last = PQCall("init", Len(items), ~keys_is_list, FALSE, 0)

\* has_item: `return item in self.set`
has_item(item) == item \in pq_set

pq_has_item(item) ==
    /\ pq_built
    /\ pq_last' = PQCall("has_item", item, FALSE, has_item(item), 0)
    /\ UNCHANGED <<pq_built, pq_set, pq_heap>>

\* pop_minimum: heappop raises IndexError on an empty heap; `del
\* self.set[smallest]` raises KeyError, after the heap has lost the item, when
\* the item is no key
pop_minimum ==
    /\ pq_built
    /\ IF pq_heap = <<>>
       THEN /\ pq_last' = PQCall("pop_minimum", 0, TRUE, FALSE, 0)
            /\ UNCHANGED <<pq_set, pq_heap>>
       ELSE LET popped == heappop(pq_heap)
                smallest == popped.item
            IN  /\ pq_heap' = popped.heap
                /\ pq_set' = pq_set \ {smallest}
                /\ pq_last' = PQCall("pop_minimum", 0, smallest \notin pq_set, FALSE,
                                     smallest)
    /\ UNCHANGED pq_built

\* add without the test `if not (item in self.set)`
add_unchecked(item) ==
    /\ pq_set' = pq_set \cup {item}
    /\ pq_heap' = heappush(pq_heap, item)

\* what add does to the queue
add_effect(item) ==
    IF ~has_item(item)
    THEN /\ pq_set' = pq_set \cup {item}
         /\ pq_heap' = heappush(pq_heap, item)
    ELSE UNCHANGED <<pq_set, pq_heap>>

add(item) ==
    /\ pq_built
    /\ add_effect(item)
    /\ pq_last' = PQCall("add", item, FALSE, has_item(item), 0)
    /\ UNCHANGED pq_built

\* change_priority: `return`
change_priority(item) ==
    /\ pq_built
    /\ pq_last' = PQCall("change_priority", item, FALSE, FALSE, 0)
    /\ UNCHANGED <<pq_built, pq_set, pq_heap>>

\* ------------------------------------ one PriorityQueueSet, any caller
InitPQ ==
    /\ \E items \in ItemLists, keys_is_list \in BOOLEAN : pq_init(items, keys_is_list)
    /\ IdleSketch
    /\ IdleFenwick /\ IdlePaths

\* what no PriorityQueueSet call touches
pq_frame == <<sketch_vars, fw_vars, sp_vars>>

Add == \E item \in PQItems :
    add(item) /\ UNCHANGED pq_frame

PopMinimum ==
    pop_minimum /\ UNCHANGED pq_frame

HasItem == \E item \in PQItems :
    pq_has_item(item) /\ UNCHANGED pq_frame

ChangePriority == \E item \in PQItems :
    change_priority(item) /\ UNCHANGED pq_frame

NextPQ == Add \/ PopMinimum \/ HasItem \/ ChangePriority

SpecPQ == InitPQ /\ [][NextPQ]_vars

\* ------------------------------------------------------------ FenwickTree
\* the values of arr, and what add_value may leave at one index
PointValues == (-1)..2
\* the values passed to add_value
AddValues == {-1, 1, 2}
\* the arrays passed to __init__
Arrays == UNION {[1..n -> PointValues] : n \in 1..MaxArr}
\* the cumulative sums passed to find
FindSums == 0..5

\* self.tree[i]
tree_at(tree, i) == tree[i + 1]

\* `index & -index`, index > 0
RECURSIVE lowbit(_)
lowbit(index) == IF index % 2 = 1 THEN 1 ELSE 2 * lowbit(index \div 2)

\* add_value that writes tree[index] alone
add_value_once(tree, maxval, index, value) ==
    IF index < maxval THEN [tree EXCEPT ![index + 1] = @ + value] ELSE tree

\* add_value: `while index < self.maxval: self.tree[index] += value;
\* index += index & -index`
RECURSIVE add_value(_, _, _, _)
add_value(tree, maxval, index, value) ==
    IF index < maxval
    THEN add_value([tree EXCEPT ![index + 1] = @ + value], maxval,
                   index + lowbit(index), value)
    ELSE tree

\* get_cumulative_sum: `while index > 0: cumsum += self.tree[index];
\* index -= index & -index`
RECURSIVE get_cumulative_sum(_, _)
get_cumulative_sum(tree, index) ==
    IF index > 0
    THEN tree_at(tree, index) + get_cumulative_sum(tree, index - lowbit(index))
    ELSE 0

\* get: `self.get_cumulative_sum(index) - self.get_cumulative_sum(index - 1)`
get(tree, index) ==
    get_cumulative_sum(tree, index) - get_cumulative_sum(tree, index - 1)

\* __init__: `for i in range(1, self.maxval): self.add_value(i, arr[i-1])`
RECURSIVE fw_fill(_, _, _, _)
fw_fill(tree, maxval, arr, i) ==
    IF i < maxval
    THEN fw_fill(add_value(tree, maxval, i, arr[i]), maxval, arr, i + 1)
    ELSE tree

fw_init(arr) ==
    /\ fw_maxval = Len(arr) + 1
    /\ fw_tree = fw_fill([i \in 1..(Len(arr) + 1) |-> 0], Len(arr) + 1, arr, 1)
    /\ fw_values = arr
    /\ fw_last = FWCall("init", Len(arr), 0, FALSE, 0)

\* int(ceil(log(maxval, 2))): the least shift from `from` on with
\* 2^shift >= maxval
RECURSIVE ceil_log2(_, _, _)
ceil_log2(maxval, from, power) ==
    IF power >= maxval THEN from ELSE ceil_log2(maxval, from + 1, 2 * power)

\* 1 << n
RECURSIVE shl(_)
shl(n) == IF n = 0 THEN 1 ELSE 2 * shl(n - 1)

\* the loop of find; self.tree[test_index] raises IndexError when test_index
\* is no index of the list
RECURSIVE find_loop(_, _, _, _, _)
find_loop(tree, maxval, index, cumsum, bit_mask) ==
    IF bit_mask # 0 /\ index < maxval
    THEN LET test_index == index + bit_mask
         IN  IF test_index >= Len(tree)
             THEN [raised |-> TRUE, index |-> 0]
             ELSE IF cumsum >= tree_at(tree, test_index)
                  THEN find_loop(tree, maxval, test_index,
                                 cumsum - tree_at(tree, test_index), bit_mask \div 2)
                  ELSE find_loop(tree, maxval, index, cumsum, bit_mask \div 2)
    ELSE [raised |-> FALSE, index |-> IF cumsum # 0 THEN -1 ELSE index]

\* find(cumsum); `1 << (shift-1)` raises ValueError when shift is 0
find(tree, maxval, cumsum) ==
    LET shift == ceil_log2(maxval, 0, 1)
    IN  IF shift = 0 THEN [raised |-> TRUE, index |-> 0]
        ELSE find_loop(tree, maxval, 0, cumsum, shl(shift - 1))

fw_add_value(index, value) ==
    /\ fw_tree' = add_value(fw_tree, fw_maxval, index, value)
    /\ fw_values' = [fw_values EXCEPT ![index] = @ + value]
    /\ fw_last' = FWCall("add_value", index, value, FALSE, 0)
    /\ UNCHANGED fw_maxval

fw_get_cumulative_sum(index) ==
    /\ fw_last' = FWCall("get_cumulative_sum", index, 0, FALSE,
                         get_cumulative_sum(fw_tree, index))
    /\ UNCHANGED <<fw_maxval, fw_tree, fw_values>>

fw_get(index) ==
    /\ fw_last' = FWCall("get", index, 0, FALSE, get(fw_tree, index))
    /\ UNCHANGED <<fw_maxval, fw_tree, fw_values>>

fw_find(cumsum) ==
    /\ LET found == find(fw_tree, fw_maxval, cumsum)
       IN  fw_last' = FWCall("find", 0, cumsum, found.raised, found.index)
    /\ UNCHANGED <<fw_maxval, fw_tree, fw_values>>

\* ------------------------------------------- one FenwickTree, any caller
InitFenwick ==
    /\ \E arr \in Arrays : fw_init(arr)
    /\ IdleSketch
    /\ IdlePQ /\ IdlePaths

\* what no FenwickTree call touches
fw_frame == <<sketch_vars, pq_vars, sp_vars>>

\* (the value left at an index is kept within PointValues)
AddValue == \E index \in 1..(fw_maxval - 1), value \in AddValues :
    /\ fw_values[index] + value \in PointValues
    /\ fw_add_value(index, value)
    /\ UNCHANGED fw_frame

GetCumulativeSum == \E index \in 0..(fw_maxval - 1) :
    fw_get_cumulative_sum(index) /\ UNCHANGED fw_frame

Get == \E index \in 1..(fw_maxval - 1) :
    fw_get(index) /\ UNCHANGED fw_frame

Find == \E cumsum \in FindSums :
    fw_find(cumsum) /\ UNCHANGED fw_frame

NextFenwick == AddValue \/ GetCumulativeSum \/ Get \/ Find

SpecFenwick == InitFenwick /\ [][NextFenwick]_vars

\* ------------------------------------------------------ floyd and dijkstra
\* sys.maxsize, the weight of a missing link: 2^31 - 1, its value on a 32-bit
\* build, stands for it
MaxSize == 2147483647
\* the n passed, and the weights of the links that exist
NodeCounts == {1, 2, 3}
LinkWeights == {0, 1, 3}
nodes(n) == 0..(n - 1)
\* the matrices passed: any weight or none off the diagonal, and one of 0 and
\* sys.maxsize all along the diagonal, which neither function reads a distance from
WeightMatrices(n) ==
    {w \in [nodes(n) -> [nodes(n) -> LinkWeights \cup {MaxSize}]] :
        \A i \in nodes(n) : w[i][i] = w[0][0] /\ w[i][i] \in {0, MaxSize}}

\* a + b on float64 where one of the two may be sys.maxsize: the sum is not
\* below sys.maxsize then, and it is only ever tested with < against values
\* that are not above sys.maxsize, so sys.maxsize stands for it
fadd(a, b) == IF a = MaxSize \/ b = MaxSize THEN MaxSize ELSE a + b

\* floyd, lines 17-26: the matrices before the main loop
floyd_start(n, w) ==
    [dist |-> [i \in nodes(n) |-> [j \in nodes(n) |->
                  IF i = j THEN 0 ELSE w[i][j]]],
     pred |-> [i \in nodes(n) |-> [j \in nodes(n) |->
                  IF i = j THEN -1 ELSE IF w[i][j] # MaxSize THEN i ELSE 0]]]

\* one pass of `for k` that relaxes nothing
floyd_direct_links(n, start, k, steps) == start

\* floyd, lines 30-37, one pass of `for k`: the matrices after the first
\* `steps` passes of the body of `for j`, `for i`
RECURSIVE floyd_loop(_, _, _, _)
floyd_loop(n, start, k, steps) ==
    IF steps = 0 THEN start
    ELSE LET m == floyd_loop(n, start, k, steps - 1)
             j == (steps - 1) \div n
             i == (steps - 1) % n
             test_dist == fadd(m.dist[i][k], m.dist[k][j])
         IN  IF test_dist < m.dist[i][j]
             THEN [dist |-> [m.dist EXCEPT ![i][j] = test_dist],
                   pred |-> [m.pred EXCEPT ![i][j] = m.pred[k][j]]]
             ELSE m

\* the tuple (dist, k) on the heap, as one number that orders as the tuple does
entry(n, dist, k) == dist * n + k
entry_dist(n, e) == e \div n
entry_node(n, e) == e % n

\* dijkstra, lines 51-58: the matrices before the first source
dijkstra_start(n) ==
    [dist |-> [i \in nodes(n) |-> [j \in nodes(n) |-> IF i = j THEN 0 ELSE MaxSize]],
     pred |-> [i \in nodes(n) |-> [j \in nodes(n) |-> IF i = j THEN -1 ELSE i]],
     marked |-> {}, final_dist |-> <<>>, heap |-> <<>>, raised |-> FALSE]

\* dijkstra, lines 82-94: the neighbours j, j+1, ... of k
RECURSIVE check_neighbours(_, _, _, _, _, _)
check_neighbours(n, w, source, st, k, j) ==
    IF j = n \/ st.raised THEN st
    ELSE IF j # k /\ j \notin st.marked
         THEN LET alt_path_dist == fadd(st.dist[source][k], w[k][j])
              IN  IF j \in DOMAIN st.final_dist
                  THEN IF alt_path_dist < st.final_dist[j]
                       THEN [st EXCEPT !.raised = TRUE]
                       ELSE check_neighbours(n, w, source, st, k, j + 1)
                  ELSE IF alt_path_dist < st.dist[source][j]
                       THEN check_neighbours(n, w, source,
                                [st EXCEPT !.heap = heappush(@, entry(n, alt_path_dist, j)),
                                           !.pred[source][j] = k],
                                k, j + 1)
                       ELSE check_neighbours(n, w, source, st, k, j + 1)
         ELSE check_neighbours(n, w, source, st, k, j + 1)

\* dijkstra, lines 72-94: `while heap`
RECURSIVE while_heap(_, _, _, _)
while_heap(n, w, source, st) ==
    IF st.heap = <<>> \/ st.raised THEN st
    ELSE LET popped == heappop(st.heap)
             dist == entry_dist(n, popped.item)
             k == entry_node(n, popped.item)
         IN  IF k \in DOMAIN st.final_dist
             THEN while_heap(n, w, source, [st EXCEPT !.heap = popped.heap])
             ELSE while_heap(n, w, source,
                     check_neighbours(n, w, source,
                         [st EXCEPT !.heap = popped.heap,
                                    !.dist[source][k] = dist,
                                    !.final_dist = [x \in (DOMAIN @) \cup {k} |->
                                                       IF x = k THEN dist ELSE @[x]],
                                    !.marked = @ \cup {k}],
                         k, 0))

\* dijkstra, lines 61-94: the sources source, source+1, ...
RECURSIVE for_source(_, _, _, _)
for_source(n, w, source, st) ==
    IF source = n \/ st.raised THEN st
    ELSE for_source(n, w, source + 1,
            while_heap(n, w, source,
                [st EXCEPT !.marked = {source},
                           !.final_dist = <<>>,
                           !.heap = heappush(<<>>, entry(n, 0, source))]))

dijkstra(n, w) == for_source(n, w, 0, dijkstra_start(n))

\* floyd is called: lines 17-26
floyd_call ==
    /\ floyd_out.k = -1
    /\ LET m == floyd_start(n_nodes, weight_mtx)
       IN  floyd_out' = [done |-> FALSE, k |-> 0, dist |-> m.dist, pred |-> m.pred]
    /\ UNCHANGED <<n_nodes, weight_mtx, dijkstra_out>>

\* one pass of `for k in range(n)`; floyd returns after the last
floyd_pass ==
    /\ floyd_out.k >= 0 /\ floyd_out.k < n_nodes
    /\ LET m == floyd_loop(n_nodes, [dist |-> floyd_out.dist, pred |-> floyd_out.pred],
                           floyd_out.k, n_nodes * n_nodes)
       IN  floyd_out' = [done |-> floyd_out.k + 1 = n_nodes, k |-> floyd_out.k + 1,
                         dist |-> m.dist, pred |-> m.pred]
    /\ UNCHANGED <<n_nodes, weight_mtx, dijkstra_out>>

\* dijkstra is called and returns
dijkstra_call ==
    /\ LET out == dijkstra(n_nodes, weight_mtx)
       IN  dijkstra_out' = [done |-> TRUE, raised |-> out.raised,
                            dist |-> out.dist, pred |-> out.pred]
    /\ UNCHANGED <<n_nodes, weight_mtx, floyd_out>>

\* ------------------------------------- one weight matrix, both functions
InitPaths ==
    /\ n_nodes \in NodeCounts
    /\ weight_mtx \in WeightMatrices(n_nodes)
    /\ floyd_out = [done |-> FALSE, k |-> -1, dist |-> <<>>, pred |-> <<>>]
    /\ dijkstra_out = [done |-> FALSE, raised |-> FALSE, dist |-> <<>>, pred |-> <<>>]
    /\ IdleSketch
    /\ IdlePQ /\ IdleFenwick

\* what neither function touches
sp_frame == <<sketch_vars, pq_vars, fw_vars>>

Floyd ==
    floyd_call /\ UNCHANGED sp_frame

FloydPass ==
    floyd_pass /\ UNCHANGED sp_frame

Dijkstra ==
    dijkstra_call /\ UNCHANGED sp_frame

NextPaths == Floyd \/ FloydPass \/ Dijkstra

SpecPaths == InitPaths /\ [][NextPaths]_vars

\* ------------------------------------------------------------- the claims
\* C1: after update calls only (no csv_update), for every item x the estimate
\* query(x) is at least the sum of the counts update accepted for x,
\* whatever the hash function.
NeverUnderestimatesUnderUpdate ==
    ~csv_used => \A x \in Items : query(counters_of(1), x) >= inserted[x]

\* C1 witness: two items were updated and one of them is overestimated
\* because the other shares a cell with it in every row.
OverestimateByCollision ==
    /\ ~csv_used
    /\ last.op = "update"
    /\ \A x \in Items : inserted[x] > 0
    /\ \E x \in Items : query(counters_of(1), x) > inserted[x]

\* the rule of conservative update: e is the estimate of the item itself in
\* the table before the call; each of its cells becomes max(cell, e + count)
conservative_rule(c, item, count) ==
    LET e == query(c, item)
    IN [r \in 0..(num_rows - 1) |->
           [c[r] EXCEPT ![hash(item, r)] = Max2(@, e + count)]]

\* C2: csv_update(item, count) with count > 0 sets each cell of the item to
\* max(old cell, e + count), e being the estimate of that item before the call.
CsvUpdateFollowsRule ==
    [][(last'.op = "csv_update" /\ last'.count > 0)
          => counters' = conservative_rule(counters, last'.item, last'.count)]_vars

\* C3: after update and csv_update calls in any order, for every item x
\* query(x) is at least the sum of the counts accepted for x.
NeverUnderestimates ==
    \A x \in Items : query(counters_of(1), x) >= inserted[x]

\* C4: the same stream fed by csv_update to one table and by update to
\* another gives, for every item, an estimate on the first that is at most
\* the estimate on the second.
ConservativeDominance ==
    \A x \in Items : query(counters_of(1), x) <= query(std_counters, x)

\* C5: update and csv_update with count < 0 raise and leave every counter and
\* num_items as they were.
NegativeCountRejected ==
    [][(last'.op \in {"update", "csv_update"} /\ last'.count < 0)
          => /\ last'.raised
             /\ counters' = counters
             /\ own_num_items' = own_num_items
             /\ num_items' = num_items]_vars

\* C5 witness: a negative count was rejected on a sketch that holds counts.
NegativeRejectedOnUsedSketch ==
    /\ last.op \in {"update", "csv_update"}
    /\ last.count < 0
    /\ last.raised
    /\ num_items_of(1) > 0
    /\ \E x \in Items : query(counters_of(1), x) > 0

\* the cells update(item, count) is to raise by count, on table c
raised_by(c, item, count) ==
    [r \in 0..(num_rows - 1) |-> [c[r] EXCEPT ![hash(item, r)] = @ + count]]

\* C6: GeneralCountMinSketch.update with count < 0 does not raise, adds
\* |count| to the item's cells of sketch_negative and leaves sketch_positive
\* as it was; with count >= 0 it changes sketch_positive only.
GeneralUpdateRoutesBySign ==
    [][last'.op = "g_update" =>
          LET pos == general.sketch_positive
              neg == general.sketch_negative
              item == last'.item
              count == last'.count
          IN /\ ~last'.raised
             /\ IF count < 0
                THEN /\ counters_of(neg)' = raised_by(counters_of(neg), item, -count)
                     /\ counters_of(pos)' = counters_of(pos)
                ELSE /\ counters_of(pos)' = raised_by(counters_of(pos), item, count)
                     /\ counters_of(neg)' = counters_of(neg)]_vars

\* no other item shares a cell with x in any row
no_collision(x) ==
    \A y \in Items \ {x} : \A r \in 0..(num_rows - 1) : hash(y, r) # hash(x, r)

\* C7: when no other item collides with the item, the query of a
\* GeneralCountMinSketch is the signed sum of the counts passed to update
\* for the item (+5 then -3 gives 2).
SignedRoundTrip ==
    \A x \in Items : no_collision(x) => g_query(x) = net[x]

\* C8: constructing, update or csv_update on one CountMinSketch object leaves
\* the counters of every other object as they were.
NoSharedCounters ==
    [][\A o \in alive :
          (last'.op \in {"construct", "update", "csv_update"} /\ last'.self # o)
              => counters_of(o)' = counters_of(o)]_vars

\* C9: every object keeps the num_rows and num_columns it was constructed
\* with, and a table of that shape.
DimensionsFixed ==
    \A o \in alive :
        /\ num_rows_of(o) = own_dims[o][1]
        /\ num_columns_of(o) = own_dims[o][2]
        /\ DOMAIN counters_of(o) = 0..(own_dims[o][1] - 1)
        /\ \A r \in DOMAIN counters_of(o) :
              DOMAIN counters_of(o)[r] = 0..(own_dims[o][2] - 1)

CountersNonNegative ==
    \A r \in DOMAIN counters_of(1) : \A c \in DOMAIN counters_of(1)[r] :
        counters_of(1)[r][c] >= 0

\* C12 witness: csv_update was accepted after a negative count had been
\* refused, and some counter has grown past 1.
CountersGrown ==
    /\ csv_used
    /\ last.op \in {"update", "csv_update"} /\ last.raised
    /\ \E r \in DOMAIN counters_of(1) : \E c \in DOMAIN counters_of(1)[r] :
          counters_of(1)[r][c] > 1

\* C13: query changes no counter and not num_items, and a query on an object
\* returns what the query before it returned for the same item when no update
\* or csv_update was called on that object in between.
QueryRepeatable ==
    [][last'.op = "query" =>
          /\ counters' = counters
          /\ own_num_items' = own_num_items
          /\ num_items' = num_items
          /\ answered[last'.self][last'.item] >= 0
                => last'.value = answered[last'.self][last'.item]]_vars

\* C14 as stated: len() of the GeneralCountMinSketch is the number of update
\* calls routed to sketch_positive (those with count >= 0).
GeneralLenCountsRouted ==
    g_len = routed

\* C14 as amended: len() of the GeneralCountMinSketch is the number of update
\* calls with count > 0; calls with a negative count or with count 0 leave
\* it as it is.
GeneralLenCountsPositive ==
    g_len = calls[general.sketch_positive]

\* C14 witness: calls with count > 0, with count 0 and with a negative count
\* have been made.
GeneralLenAfterAllSigns ==
    /\ g_len > 0
    /\ routed > g_len
    /\ last.op = "g_update" /\ last.count < 0

\* C15: error-bound construction sets num_rows to ceil(-ln(error_prob)), the
\* n with exp(n - 1) < 1 / error_prob <= exp(n), and num_columns to
\* ceil(e / error), the m with (m - 1) * error < e <= m * error; error 0.1 and
\* error_prob 0.01 give 5 rows and 28 columns.
ErrorBoundDimensions ==
    (last.op = "construct_bound" /\ ~last.raised) =>
        LET error == last.dims[1]
            error_prob == last.dims[2]
        IN  /\ error_prob * exp_milli(num_rows) >= Scale * Milli
            /\ error_prob * exp_milli(num_rows - 1) < Scale * Milli
            /\ num_columns * error * Milli >= EMilli * Scale
            /\ (num_columns - 1) * error * Milli < EMilli * Scale
            /\ (error = 10 /\ error_prob = 1) => (num_rows = 5 /\ num_columns = 28)

\* C15 witness: a sketch was constructed with error 0.1 and error_prob 0.01.
BuiltFromTenthAndHundredth ==
    /\ last.op = "construct_bound" /\ ~last.raised
    /\ last.dims = <<10, 1>>
    /\ num_rows = 5 /\ num_columns = 28
    /\ counters = zero_table(5, 28)

\* C16: in a constructed PriorityQueueSet the heap holds no item twice and its
\* items are exactly the keys of the membership set, so has_item(x) answers
\* whether x is in the heap; add(x) of an item already present changes neither
\* the heap nor the set.
ItemsUnique ==
    /\ [](pq_built =>
            /\ \A i, j \in DOMAIN pq_heap : pq_heap[i] = pq_heap[j] => i = j
            /\ elements(pq_heap) = pq_set
            /\ pq_last.op = "has_item"
                  => (pq_last.found <=> pq_last.item \in elements(pq_heap)))
    /\ [][(pq_last'.op = "add" /\ pq_last'.found)
              => (pq_heap' = pq_heap /\ pq_set' = pq_set)]_vars

\* C16 witness: add was called with an item that is in a queue of three items
\* or more.
AddedPresentItem ==
    /\ pq_last.op = "add" /\ pq_last.found
    /\ pq_last.item \in elements(pq_heap)
    /\ Len(pq_heap) >= 3

\* C17: pop_minimum on a non-empty queue returns the smallest item of the
\* queue and removes it from the heap and from the membership set; a
\* pop_minimum that follows another returns a larger item.
PopsSmallest ==
    [][(pq_last'.op = "pop_minimum" /\ pq_heap # <<>>) =>
          /\ ~pq_last'.raised
          /\ pq_last'.value \in pq_set
          /\ \A x \in pq_set : pq_last'.value <= x
          /\ pq_set' = pq_set \ {pq_last'.value}
          /\ elements(pq_heap') = elements(pq_heap) \ {pq_last'.value}
          /\ Len(pq_heap') = Len(pq_heap) - 1
          /\ (pq_last.op = "pop_minimum" /\ ~pq_last.raised)
                => pq_last.value < pq_last'.value]_vars

\* C17 witness: pop_minimum returned an item smaller than the two or more
\* items left in the queue, after another pop_minimum had returned a smaller one.
PoppedBelowTheRest ==
    /\ pq_last.op = "pop_minimum" /\ ~pq_last.raised
    /\ pq_last.value > 1
    /\ Cardinality(pq_set) >= 2
    /\ \A x \in pq_set : pq_last.value < x

\* the sum of the values at the indices 1..k
RECURSIVE sum_to(_, _)
sum_to(values, k) == IF k = 0 THEN 0 ELSE values[k] + sum_to(values, k - 1)

\* C18: after construction from arr and any add_value calls, for every k in
\* 0..n get_cumulative_sum(k) is the sum of arr[0..k-1] and of what was added
\* at the indices <= k, and for every k in 1..n get(k) is arr[k-1] plus what
\* was added at k; the calls return these values.
CumulativeSumsExact ==
    /\ \A k \in 0..(fw_maxval - 1) :
          get_cumulative_sum(fw_tree, k) = sum_to(fw_values, k)
    /\ \A k \in 1..(fw_maxval - 1) : get(fw_tree, k) = fw_values[k]
    /\ fw_last.op = "get_cumulative_sum"
          => fw_last.result = sum_to(fw_values, fw_last.index)
    /\ fw_last.op = "get" => fw_last.result = fw_values[fw_last.index]

\* C18 witness: get_cumulative_sum(n) returned the sum of an array of three
\* values or more, a negative one and a positive one among them.
SummedWholeArray ==
    /\ fw_last.op = "get_cumulative_sum"
    /\ fw_maxval >= 4
    /\ fw_last.index = fw_maxval - 1
    /\ fw_last.result = sum_to(fw_values, fw_maxval - 1)
    /\ \E i, j \in DOMAIN fw_values : fw_values[i] < 0 /\ fw_values[j] > 1

\* C19: on a tree of non-negative values find(cumsum) raises nothing and
\* returns the largest i in 0..n with get_cumulative_sum(i) = cumsum, or -1
\* when there is none.
FindLargestIndex ==
    (/\ fw_last.op = "find"
     /\ \A i \in DOMAIN fw_values : fw_values[i] >= 0) =>
        LET hits == {i \in 0..(fw_maxval - 1) : sum_to(fw_values, i) = fw_last.value}
        IN  /\ ~fw_last.raised
            /\ fw_last.result = IF hits = {} THEN -1
                                 ELSE CHOOSE i \in hits : \A j \in hits : j <= i

\* the nodes sequences from s to t that visit no node twice
simple_paths(n, s, t) ==
    {p \in UNION {[1..k -> nodes(n)] : k \in 1..n} :
        /\ p[1] = s /\ p[Len(p)] = t
        /\ \A i, j \in DOMAIN p : p[i] = p[j] => i = j}

\* the weight of a path, sys.maxsize when a link of it is missing
RECURSIVE path_weight(_, _, _)
path_weight(w, p, i) ==
    IF i >= Len(p) THEN 0
    ELSE IF w[p[i]][p[i + 1]] = MaxSize \/ path_weight(w, p, i + 1) = MaxSize
         THEN MaxSize
         ELSE w[p[i]][p[i + 1]] + path_weight(w, p, i + 1)

\* the least weight of a path from s to t, sys.maxsize when there is none
shortest(n, w, s, t) ==
    LET weights == {path_weight(w, p, 1) : p \in simple_paths(n, s, t)}
    IN  CHOOSE d \in weights : \A e \in weights : d <= e

\* C20: on every n-node matrix of non-negative weights floyd and dijkstra
\* return the same distance matrix: entry [s][t] is the weight of a shortest
\* path from s to t, 0 on the diagonal, sys.maxsize when t cannot be reached.
SameShortestDistances ==
    /\ floyd_out.done =>
          \A s, t \in nodes(n_nodes) :
              floyd_out.dist[s][t] = shortest(n_nodes, weight_mtx, s, t)
    /\ dijkstra_out.done =>
          /\ ~dijkstra_out.raised
          /\ \A s, t \in nodes(n_nodes) :
                dijkstra_out.dist[s][t] = shortest(n_nodes, weight_mtx, s, t)
    /\ (floyd_out.done /\ dijkstra_out.done) =>
          /\ floyd_out.dist = dijkstra_out.dist
          /\ \A s \in nodes(n_nodes) : floyd_out.dist[s][s] = 0

\* C20 witness: both functions have returned for a 3-node matrix in which a
\* path over a third node is lighter than the direct link and some node
\* cannot be reached from another.
DetourAndUnreachable ==
    /\ floyd_out.done /\ dijkstra_out.done
    /\ n_nodes = 3
    /\ \E s, t \in nodes(n_nodes) :
          /\ weight_mtx[s][t] # MaxSize
          /\ floyd_out.dist[s][t] < weight_mtx[s][t]
          /\ dijkstra_out.dist[s][t] < weight_mtx[s][t]
    /\ \E s, t \in nodes(n_nodes) :
          floyd_out.dist[s][t] = MaxSize /\ dijkstra_out.dist[s][t] = MaxSize

\* C21: update(item, count) with count > 0 adds count to one cell in each row,
\* the cell at the item's index for that row, and leaves every other cell of
\* the table as it was.
UpdateAddsToOneCellPerRow ==
    [][(last'.op = "update" /\ last'.count > 0) =>
          /\ DOMAIN counters' = 0..(num_rows - 1)
          /\ \A r \in 0..(num_rows - 1) :
                /\ DOMAIN counters'[r] = 0..(num_columns - 1)
                /\ \A i \in 0..(num_columns - 1) :
                      counters'[r][i] = counters[r][i]
                          + (IF i = hash(last'.item, r) THEN last'.count ELSE 0)]_vars

\* C21 witness: update was accepted on a table of three columns; the item's
\* cell holds the count in every row and another cell of some row is still 0.
UpdatedOneCellOfThree ==
    /\ last.op = "update" /\ last.count > 0
    /\ num_columns = 3
    /\ \A r \in 0..(num_rows - 1) : counters[r][hash(last.item, r)] >= last.count
    /\ \E r \in 0..(num_rows - 1), i \in 0..(num_columns - 1) :
          i # hash(last.item, r) /\ counters[r][i] = 0

\* C23: update(item, 0) and csv_update(item, 0) change no counter cell and do
\* not increment num_items, so len() is what it was before the call.
ZeroCountIsNoOp ==
    [][(last'.op \in {"update", "csv_update"} /\ last'.count = 0) =>
          /\ ~last'.raised
          /\ counters' = counters
          /\ num_items' = num_items
          /\ own_num_items' = own_num_items
          /\ \A self \in alive : self = last'.self => len_of(self)' = len_of(self)]_vars

\* C23 witness: a call with count 0 was made on a sketch that had accepted a
\* call before, and len() still counts that one call.
ZeroCountAfterAccepted ==
    /\ last.op \in {"update", "csv_update"} /\ last.count = 0
    /\ calls[1] = 1 /\ len_of(1) = 1
    /\ \E r \in 0..(num_rows - 1), i \in 0..(num_columns - 1) : counters[r][i] > 0

\* C22: the predecessor matrix dijkstra returns agrees with its distance
\* matrix: for every source s and every node j # s that can be reached from
\* s, pred_mtx[s][j] is a node k with a link to j and
\* dist_mtx[s][j] = dist_mtx[s][k] + weight_mtx[k][j].
PredecessorsOnShortestPaths ==
    dijkstra_out.done =>
        \A s, j \in nodes(n_nodes) :
            (j # s /\ dijkstra_out.dist[s][j] # MaxSize) =>
                LET k == dijkstra_out.pred[s][j]
                IN  /\ k \in nodes(n_nodes)
                    /\ weight_mtx[k][j] # MaxSize
                    /\ dijkstra_out.dist[s][k] # MaxSize
                    /\ dijkstra_out.dist[s][j]
                          = dijkstra_out.dist[s][k] + weight_mtx[k][j]

====
